---- MODULE Spec2Model ----
(***************************************************************************)
(* Burst detection and the LFP facades of minibrain                        *)
(* (minibrain/burstcounter.py, minibrain/lfp.py, minibrain/lfpmanager.py). *)
(*                                                                         *)
(* Python arrays are TLA+ sequences; At(a, i) reads the Python index i.    *)
(* Sample indices stored in p and _burst are Python (0-based) indices.     *)
(* Envelope samples are non-negative integers; a comparison against a      *)
(* multiple of the standard deviation is decided exactly, on squares.      *)
(***************************************************************************)
EXTENDS Integers, Sequences, FiniteSets, TLC

----------------------------------------------------------------------------
(* Bounds of the model *)

\* exhaustively enumerated envelopes have 1..MaxSmallLen samples
MaxSmallLen == 4
\* ... with sample values 0..MaxSmallVal
MaxSmallVal == 2
\* number of samples of the envelopes that carry bumps
LongLen == 1300
\* number of delete / __setitem__ / __getitem__ calls made on one Burst object
MaxOps == 1
\* number of calls of the module-level burst object in one session
MaxCalls == 3
\* largest signal size handed to fourier_spectrum
MaxN == 6
\* peak height of the bumps of a long envelope
PeakHeight == 20
\* signals handed to the signal-processing functions have 0..MaxSigLen samples
MaxSigLen == 3
\* largest segment (in samples) handed to rms
MaxSeg == 3
\* largest number of frequencies of a power spectrum handed to get_delta
MaxBins == 5

(* Program constants *)

\* Burst.__init__(..., upthr = 7, ...)
DefaultUpthr == 7
\* Burst.__init__(..., srate = 30000)
DefaultSrate == 30000
\* lfp.decimate(myrecBP, q = 60); self.srate = int(srate/60)
DecimationQ == 60
\* np.nan: a value that is no sample index and compares false with everything
NaN == -1000000

----------------------------------------------------------------------------
(* Python / NumPy helpers *)

Min2(a, b) == IF a <= b THEN a ELSE b
Max2(a, b) == IF a >= b THEN a ELSE b
Abs(a) == IF a < 0 THEN -a ELSE a

\* a[i] for a Python index 0 <= i < len(a)
At(a, i) == a[i + 1]

IsNaN(v) == v = NaN

\* IEEE comparisons: false as soon as one side is NaN
Lt(a, b) == ~IsNaN(a) /\ ~IsNaN(b) /\ a < b

MinOf(S) == CHOOSE m \in S : \A k \in S : m <= k
MaxOf(S) == CHOOSE m \in S : \A k \in S : k <= m

RECURSIVE SortSet(_)
\* the elements of a finite set of integers, ascending
SortSet(S) == IF S = {} THEN <<>>
              ELSE LET m == MinOf(S) IN <<m>> \o SortSet(S \ {m})

RECURSIVE SumRange(_, _, _)
\* a[lo] + ... + a[hi] over TLA+ indices
SumRange(a, lo, hi) ==
    IF lo > hi THEN 0
    ELSE IF lo = hi THEN a[lo]
    ELSE LET mid == (lo + hi) \div 2
         IN SumRange(a, lo, mid) + SumRange(a, mid + 1, hi)

RECURSIVE SumSqRange(_, _, _)
SumSqRange(a, lo, hi) ==
    IF lo > hi THEN 0
    ELSE IF lo = hi THEN a[lo] * a[lo]
    ELSE LET mid == (lo + hi) \div 2
         IN SumSqRange(a, lo, mid) + SumSqRange(a, mid + 1, hi)

\* n^2 * variance of the array: n * sum(a^2) - sum(a)^2   (np.std squared, scaled)
ScaledVar(a) ==
    Len(a) * SumSqRange(a, 1, Len(a)) - SumRange(a, 1, Len(a)) * SumRange(a, 1, Len(a))

\* v >= a.std() * k, for v >= 0 and k >= 1, with n = len(a) and d = ScaledVar(a);
\* false when the array is empty (std is nan)
GeStd(v, k, n, d) == n > 0 /\ d <= (v * v * n * n) \div (k * k)

\* v > a.std() * k
GtStd(v, k, n, d) == n > 0 /\ d <= (v * v * n * n - 1) \div (k * k)

\* a bound of a[start:stop] (step 1), Python slice semantics: a negative bound
\* counts from the end, every bound is clipped to [0, n]
SliceBound(n, i) == IF i < 0 THEN Max2(i + n, 0) ELSE Min2(i, n)

\* a bound of a[start:stop:-1]: clipped to [-1, n-1]
RevSliceBound(n, i) == IF i < 0 THEN Max2(i + n, -1) ELSE Min2(i, n - 1)

\* len(a[start:stop])
SliceLen(n, start, stop) == Max2(SliceBound(n, stop) - SliceBound(n, start), 0)

\* len(a[start:stop:-1])
RevSliceLen(n, start, stop) == Max2(RevSliceBound(n, start) - RevSliceBound(n, stop), 0)

\* np.where(tmp > lowthr)[0][0] for the slice tmp of a that has cnt samples, the
\* j-th (0-based) being a[first + step*j]: the first position of tmp whose sample
\* is above lowthr = std*2.0; -1 when there is none (val[0] raises IndexError)
FirstAbove(a, first, step, cnt, d) ==
    LET above(j) == GtStd(At(a, first + step * j), 2, Len(a), d)
    IN IF \E j \in 0..(cnt - 1) : above(j)
       THEN CHOOSE j \in 0..(cnt - 1) : above(j) /\ \A k \in 0..(j - 1) : ~above(k)
       ELSE -1

----------------------------------------------------------------------------
(* Burst.__long_burst (burstcounter.py) *)

RECURSIVE Ahead(_, _, _)
\* scipy's plateau scan: from j, the first index that leaves the plateau of x[i]
\* or is the last sample
Ahead(x, i, j) ==
    IF j < Len(x) - 1 /\ At(x, j) = At(x, i) THEN Ahead(x, i, j + 1) ELSE j

\* signal.find_peaks(x = self.rms, height = highthr)[0]: the local maxima (the
\* middle of a plateau, rounded down; never the first or the last sample) whose
\* height is at least highthr = self.rms.std()*upthr, ascending
FindPeaks(x, u, d) ==
    LET n == Len(x)
        rising == {i \in 1..(n - 2) : At(x, i - 1) < At(x, i)}
        tops == {i \in rising : At(x, Ahead(x, i, i + 1)) < At(x, i)}
        maxima == {(i + Ahead(x, i, i + 1) - 1) \div 2 : i \in tops}
    IN SortSet({m \in maxima : GeStd(At(x, m), u, n, d)})

\* self.srate = int(srate/60)
DecimatedRate(sr) == sr \div DecimationQ

\* int(0.150*self.srate): samples of the backward window
BackWindow(s) == (150 * s) \div 1000

\* int(0.250*self.srate): samples of the forward window
FwdWindow(s) == (250 * s) \div 1000

\* mutation: gaps equal to the threshold count as large
GapIsLargeGe(dx, s) == 4 * dx >= 3 * s

\* dx > .75*self.srate
GapIsLarge(dx, s) == 4 * dx > 3 * s

\* idx = np.where(np.diff(p) > .75*self.srate)[0]: the 0-based positions k with a
\* large gap between p[k] and p[k+1], ascending
BigGaps(pk, s) ==
    SortSet({k \in 0..(Len(pk) - 2) : GapIsLarge(At(pk, k + 1) - At(pk, k), s)})

\* mutation: the peak before the gap is taken as the start of the next burst
StartIndicesAtGap(idx) == <<0>> \o idx

\* start = np.concatenate( ([0], idx + 1) )
StartIndices(idx) == <<0>> \o [k \in 1..Len(idx) |-> idx[k] + 1]

\* end = np.concatenate( (idx, [-1]) )
EndIndices(idx) == idx \o <<-1>>

\* p[sel] raises IndexError: some selected index is outside p
SelectRaises(pk, sel) ==
    \E k \in 1..Len(sel) : sel[k] >= Len(pk) \/ sel[k] < -Len(pk)

\* p[sel] (a copy): negative indices count from the end
Select(pk, sel) ==
    [k \in 1..Len(sel) |-> IF sel[k] < 0 THEN At(pk, sel[k] + Len(pk))
                                       ELSE At(pk, sel[k])]

\* mutation: the start is moved forward by what the code moves it back
RefineStartLater(x, a, s, d) ==
    LET w == BackWindow(s)
        j == FirstAbove(a, SliceBound(Len(a), x - w), 1,
                        SliceLen(Len(a), x - w, x), d)
    IN IF j = -1 THEN x ELSE x + (w - j)

\* lines 260-268: tmp = self.rms[x-int(0.150*self.srate):x];
\* pstart[i] -= (int(0.150*self.srate)-val[0]), unchanged when val is empty
RefineStart(x, a, s, d) ==
    LET w == BackWindow(s)
        j == FirstAbove(a, SliceBound(Len(a), x - w), 1,
                        SliceLen(Len(a), x - w, x), d)
    IN IF j = -1 THEN x ELSE x - (w - j)

\* lines 281-289: tmp = self.rms[x+int(0.250*self.srate):x:-1];
\* pend[i] += (int(0.250*self.srate)-val[0]), unchanged when val is empty
RefineEnd(x, a, s, d) ==
    LET f == FwdWindow(s)
        j == FirstAbove(a, RevSliceBound(Len(a), x + f), -1,
                        RevSliceLen(Len(a), x + f, x), d)
    IN IF j = -1 THEN x ELSE x + (f - j)

\* p[start] or p[end] raises IndexError (no peak was detected)
NoPeakSelected(pk, s) ==
    \/ SelectRaises(pk, StartIndices(BigGaps(pk, s)))
    \/ SelectRaises(pk, EndIndices(BigGaps(pk, s)))

\* the pairs (pstart[k], pend[k]) as selected from the peaks at lines 254 and
\* 275, before refinement; none when the selection raises
Candidates(pk, s) ==
    IF NoPeakSelected(pk, s) THEN <<>>
    ELSE LET pstart == Select(pk, StartIndices(BigGaps(pk, s)))
             pend == Select(pk, EndIndices(BigGaps(pk, s)))
         IN [k \in 1..Len(pstart) |-> <<pstart[k], pend[k]>>]

\* the rows of np.column_stack( (pstart, pend) ), line 293: the refined pairs,
\* or the single row (nan, nan) when the selection raised
BurstRows(pk, a, s, d) ==
    IF NoPeakSelected(pk, s) THEN <<<<NaN, NaN>>>>
    ELSE LET c == Candidates(pk, s)
         IN [k \in 1..Len(c) |->
               <<RefineStart(c[k][1], a, s, d), RefineEnd(c[k][2], a, s, d)>>]

----------------------------------------------------------------------------
(* get_burst (lfp.py), as lfp.Burst.__init__ calls it *)

\* data.std()*7: the factor of the peak height
LfpUpthr == 7

\* mysrate = srate/60 (a whole number for the rates in Srates)
LfpRate(sr) == sr \div 60

\* int(0.05*srate)
LfpWindow(s) == (50 * s) \div 1000

\* dx > 0.5*srate
LfpGapIsLarge(dx, s) == 2 * dx > s

\* idx = np.where(dx>0.5*srate)[0]
LfpBigGaps(pk, s) ==
    SortSet({k \in 0..(Len(pk) - 2) : LfpGapIsLarge(At(pk, k + 1) - At(pk, k), s)})

\* np.where(tmp < mythr)[0][0] for the slice tmp of a that has cnt samples, the
\* j-th (0-based) being a[first + step*j]: the first position of tmp whose sample
\* is below mythr = data.std()*2; -1 when there is none (val[0] raises IndexError)
FirstBelow(a, first, step, cnt, d) ==
    LET below(j) == ~GeStd(At(a, first + step * j), 2, Len(a), d)
    IN IF \E j \in 0..(cnt - 1) : below(j)
       THEN CHOOSE j \in 0..(cnt - 1) : below(j) /\ \A k \in 0..(j - 1) : ~below(k)
       ELSE -1

\* tmp = data[x:x-int(0.05*srate):-1]; pstart[i] -= val[0], unchanged when val
\* is empty
LfpRefineStart(x, a, s, d) ==
    LET w == LfpWindow(s)
        j == FirstBelow(a, RevSliceBound(Len(a), x), -1,
                        RevSliceLen(Len(a), x, x - w), d)
    IN IF j = -1 THEN x ELSE x - j

\* tmp = data[x:x+int(0.05*srate)]; pend[i] += val[0], unchanged when val is
\* empty
LfpRefineEnd(x, a, s, d) ==
    LET w == LfpWindow(s)
        j == FirstBelow(a, SliceBound(Len(a), x), 1, SliceLen(Len(a), x, x + w), d)
    IN IF j = -1 THEN x ELSE x + j

\* pstart = p[start] raises IndexError (nothing catches it)
GetBurstRaises(pk, s) == SelectRaises(pk, StartIndices(LfpBigGaps(pk, s)))

\* the pairs (pstart[k], pend[k]) as selected from the peaks, before refinement
LfpCandidates(pk, s) ==
    IF GetBurstRaises(pk, s) THEN <<>>
    ELSE LET pstart == Select(pk, StartIndices(LfpBigGaps(pk, s)))
             pend == Select(pk, EndIndices(LfpBigGaps(pk, s)))
         IN [k \in 1..Len(pstart) |-> <<pstart[k], pend[k]>>]

\* list( zip(pstart, pend) )
GetBurst(pk, a, s, d) ==
    LET c == LfpCandidates(pk, s)
    IN [k \in 1..Len(c) |->
          <<LfpRefineStart(c[k][1], a, s, d), LfpRefineEnd(c[k][2], a, s, d)>>]

----------------------------------------------------------------------------
(* The inputs the operations are called with *)

\* the upper thresholds Burst is built with
Upthrs == {2, DefaultUpthr}

\* the sampling rates of the recordings (Hz)
Srates == {12000, DefaultSrate}

\* every envelope of 1..MaxSmallLen samples over 0..MaxSmallVal
SmallEnvelopes == UNION {[1..n -> 0..MaxSmallVal] : n \in 1..MaxSmallLen}

\* where the bumps of a long envelope have their peaks (Python indices)
BumpSlots == {10, 100, 250, 1100, LongLen - 10}

\* half-widths of the bumps: a single-sample spike, a narrow and a wide bump
BumpWidths == {1, 20, 300}

\* the flat level the bumps sit on
Baselines == {0, 1}

\* an envelope of LongLen samples: the baseline, and around every slot a
\* triangular bump of half-width w that peaks at PeakHeight
BumpEnvelope(base, slots, w) ==
    [k \in 1..LongLen |->
        LET near == {s \in slots : Abs(k - 1 - s) < w}
        IN IF near = {} THEN base
           ELSE base + MaxOf({((PeakHeight - base) * (w - Abs(k - 1 - s))) \div w
                              : s \in near})]

\* a low bump next to a high one: its peak height, its half-width and the
\* distance between the two peaks
Shoulder == [height |-> 8, width |-> 3, lead |-> 25]

\* the slots of the bumps that have shoulders
ShoulderSlots == {250, 1100}

\* an envelope of LongLen samples: the baseline, a triangular bump of half-width
\* w that peaks at PeakHeight on the slot, and a low bump on either side of it
ShoulderEnvelope(base, slot, w) ==
    [k \in 1..LongLen |->
        LET main == Abs(k - 1 - slot)
            side == Min2(Abs(k - 1 - (slot - Shoulder.lead)),
                         Abs(k - 1 - (slot + Shoulder.lead)))
        IN Max2(IF main < w THEN base + ((PeakHeight - base) * (w - main)) \div w
                ELSE base,
                IF side < Shoulder.width
                THEN base + ((Shoulder.height - base) * (Shoulder.width - side))
                                \div Shoulder.width
                ELSE base)]

\* the shape of an envelope that is listed sample by sample
Listed == [kind |-> "listed", base |-> 0, slots |-> {}, width |-> 0]

\* the envelopes that are listed sample by sample
ListedInputs ==
    {[shape |-> Listed, env |-> e, sd |-> ScaledVar(e)] : e \in SmallEnvelopes}

\* the envelopes lfp.rms returns to Burst.__init__: their shape, their samples
\* (env) and ScaledVar of the samples (sd)
Inputs ==
    ListedInputs
    \cup
    {[shape |-> [kind |-> "bumps", base |-> b, slots |-> sl, width |-> w],
      env |-> BumpEnvelope(b, sl, w) \o <<>>,
      sd |-> ScaledVar(BumpEnvelope(b, sl, w) \o <<>>)]
        : b \in Baselines, sl \in SUBSET BumpSlots, w \in BumpWidths}
    \cup
    {[shape |-> [kind |-> "shoulder", base |-> b, slots |-> {s}, width |-> 20],
      env |-> ShoulderEnvelope(b, s, 20) \o <<>>,
      sd |-> ScaledVar(ShoulderEnvelope(b, s, 20) \o <<>>)]
        : b \in Baselines, s \in ShoulderSlots}

\* what np.empty leaves in an uninitialised cell
Garbage == {NaN, 3}

\* the indices delete and __setitem__ are called with, for a collection of n rows
Indices(n) == (-1)..n

\* the indices __getitem__ is called with: every index of the collection,
\* counted from either end, and one past each end
GetIndices(n) == (-n - 1)..n

\* the pairs __setitem__ is called with
Pairs == {<<0, 1>>}

----------------------------------------------------------------------------
(* State *)

VARIABLES
    upthr,      \* self.upthr
    srate,      \* self.srate (0: the attribute is not set)
    rate,       \* self.rate  (0: the attribute is not set)
    wband,      \* self.wband: "[]" or "array"
    bpass,      \* self.bpass: "[]" or "array"
    shape,      \* how the envelope in self.rms was made up (Listed or bumps)
    rms,        \* self.rms
    sd,         \* self.rms.std() as computed by __long_burst, kept as
                \* len(rms)^2 times its square (0: not computed)
    p,          \* the peaks __long_burst found (its local p)
    cand,       \* the pairs (pstart, pend) __long_burst selected, unrefined
    _burst,     \* self._burst: the rows (start, end)
    idx,        \* self.idx of an lfp.Burst: the list of (start, end)
    obj,        \* the tracked object: "module" (minibrain.burst), "empty",
                \* "built", or "lfp.Burst" / "lfp.empty" (an lfp.Burst, whose
                \* envelope, peaks and candidates are kept in rms, p and cand)
    status,     \* how the last call ended: "ok" or the exception raised
    last,       \* the last call made
    nops,       \* delete / __setitem__ / __getitem__ calls made so far
    spectrum,   \* what the last fourier_spectrum call returned
    ret,        \* the last call of a signal-processing function and its result
    calls       \* the calls burst(channel, upthr, srate) made so far, in order,
                \* each with the rows of the Burst it returned

vars == <<shape, upthr, srate, rate, wband, bpass, rms, sd, p, cand, _burst, idx,
          obj, status, last, nops, spectrum, ret, calls>>

burstFields == <<shape, upthr, srate, rate, wband, bpass, rms, sd, p, cand,
                _burst, idx, obj>>

NoCall == [op |-> "none", index |-> 0, pair |-> <<0, 0>>, srate |-> 0]
NoSpectrum == [size |-> -1, raised |-> FALSE, nfreq |-> 0]

\* no signal-processing function has been called
NoRet == [op |-> "none"]

----------------------------------------------------------------------------
(* fourier_spectrum (lfp.py; LFP.fourier_spectrum is the same code) *)

\* fmax = None
NoFmax == -1

\* lfp = LFP(srate = 30000): self.srate of the facade object
LfpSrate == 30000

\* srate = None
NoRate == 0

\* lines 85-89 (and 128-132, 167-171, 220-224): the sampling rate the method
\* works with, Nyquist being half of it
UsedRate(sr) == IF sr = NoRate THEN LfpSrate ELSE sr

\* the sampling rates fourier_spectrum is called with (NoRate: the method of
\* the LFP facade, called without srate)
FourierRates == {NoRate, 10, DefaultSrate}

\* the fmax arguments fourier_spectrum is called with
FmaxArgs == {NoFmax, 0, 2, 5}

\* np.fft.fft rejects a zero-length array (and fcoeff[0] is out of range);
\* dhz = hz[1] is out of range when hz = np.linspace(0, Nyquist, Nsamples + 1)
\* has a single point
FourierRaises(n) == n = 0 \/ (n \div 2) + 1 < 2

\* len(hz) after hz = hz[:int(fmax/dhz)], with dhz = Nyquist/Nsamples
FourierBins(n, sr, fmax) ==
    LET Nsamples == n \div 2
    IN IF fmax = NoFmax THEN Nsamples + 1
       ELSE Min2(Nsamples + 1, (fmax * 2 * Nsamples) \div sr)

\* hz = np.linspace(0, Nyquist, Nsamples + 1) for Nyquist = r/2, every frequency
\* written as its numerator over the common denominator 2*Nsamples
Linspace(n, r) == [k \in 1..((n \div 2) + 1) |-> (k - 1) * r]

\* mutation: the DC component is doubled like every other bin
AmplitudesDoubled(n) == [k \in 1..n |-> <<2, k - 1>>]

\* fcoeff = np.fft.fft(data)/data.size;
\* amp = np.concatenate( (DC, 2*np.abs(fcoeff[1:])) ): the amplitude f*|X[k]|/N
\* is written <<f, k>>
Amplitudes(n) == [k \in 1..n |-> <<IF k = 1 THEN 1 ELSE 2, k - 1>>]

\* a[:m] for m >= 0
Take(a, m) == SubSeq(a, 1, Min2(m, Len(a)))

----------------------------------------------------------------------------
(* Operations *)

\* the fields of Burst(channel = None, upthr = u, srate = sr), lines 74-79
EmptyFields(u, sr, g1, g2) ==
    /\ upthr' = u
    /\ srate' = 0
    /\ rate' = sr
    /\ _burst' = <<<<g1, g2>>>>
    /\ wband' = "[]"
    /\ bpass' = "[]"
    /\ shape' = Listed
    /\ rms' = <<>>
    /\ sd' = 0
    /\ p' = <<>>
    /\ cand' = <<>>
    /\ idx' = <<>>

\* import minibrain: burst = Burst(upthr = 7, srate = 30000), line 298
Init ==
    /\ upthr = DefaultUpthr
    /\ srate = 0
    /\ rate = DefaultSrate
    /\ \E g1 \in Garbage, g2 \in Garbage : _burst = <<<<g1, g2>>>>
    /\ wband = "[]"
    /\ bpass = "[]"
    /\ shape = Listed
    /\ rms = <<>>
    /\ sd = 0
    /\ p = <<>>
    /\ cand = <<>>
    /\ idx = <<>>
    /\ obj = "module"
    /\ status = "ok"
    /\ last = NoCall
    /\ nops = 0
    /\ spectrum = NoSpectrum
    /\ ret = NoRet
    /\ calls = <<>>

\* Burst(None, u, sr), also burst() and burst.__call__(None, u, sr)
NewEmptyBurst(u, sr) ==
    /\ \E g1 \in Garbage, g2 \in Garbage : EmptyFields(u, sr, g1, g2)
    /\ obj' = "empty"
    /\ status' = "ok"
    /\ last' = [NoCall EXCEPT !.op = "Burst"]
    /\ UNCHANGED <<nops, spectrum, ret, calls>>

\* Burst(channel, u, sr) for a channel whose band-passed, decimated signal has
\* the envelope in.env (lines 53-72)
NewBurst(in, u, sr) ==
    /\ upthr' = u
    /\ wband' = "array"
    /\ srate' = DecimatedRate(sr)
    /\ rate' = 0
    /\ bpass' = "array"
    /\ shape' = in.shape
    /\ rms' = in.env
    /\ sd' = in.sd
    /\ \E pk \in {FindPeaks(in.env, u, in.sd)} :
          /\ p' = pk
          /\ cand' = Candidates(pk, DecimatedRate(sr))
          /\ _burst' = BurstRows(pk, in.env, DecimatedRate(sr), in.sd)
    /\ obj' = "built"
    /\ status' = "ok"
    /\ last' = [NoCall EXCEPT !.op = "Burst", !.srate = sr]
    /\ UNCHANGED <<idx, nops, spectrum, ret, calls>>

\* Burst(channel, u, sr) for a channel of zero samples: signal.filtfilt (in
\* lfp.band_pass, line 59) and np.convolve (in lfp.rms, line 68) reject an empty
\* array with ValueError; no object is made
NewBurstZeroLength(u, sr) ==
    /\ status' = "ValueError"
    /\ last' = [NoCall EXCEPT !.op = "Burst0"]
    /\ UNCHANGED <<burstFields, nops, spectrum, ret, calls>>

\* lfp.Burst(data, sr) for data whose band-passed, decimated signal has the
\* envelope in.env (lfp.py lines 311-327); get_burst raises when no peak is found
NewLfpBurst(in, sr) ==
    /\ shape' = in.shape
    /\ srate' = LfpRate(sr)
    /\ rms' = in.env
    /\ sd' = in.sd
    /\ \E pk \in {FindPeaks(in.env, LfpUpthr, in.sd)} :
          /\ p' = pk
          /\ cand' = LfpCandidates(pk, LfpRate(sr))
          /\ idx' = GetBurst(pk, in.env, LfpRate(sr), in.sd)
          /\ status' = IF GetBurstRaises(pk, LfpRate(sr)) THEN "IndexError" ELSE "ok"
    /\ obj' = "lfp.Burst"
    /\ last' = [NoCall EXCEPT !.op = "lfp.Burst"]
    /\ UNCHANGED <<upthr, rate, wband, bpass, _burst, nops, spectrum, ret, calls>>

\* lfp.Burst(None, sr): self.idx = [] (lfp.py lines 329-330)
NewLfpEmptyBurst(sr) ==
    /\ idx' = <<>>
    /\ obj' = "lfp.empty"
    /\ status' = "ok"
    /\ last' = [NoCall EXCEPT !.op = "lfp.Burst"]
    /\ UNCHANGED <<shape, upthr, srate, rate, wband, bpass, rms, sd, p, cand, _burst,
                   nops, spectrum, ret, calls>>

\* mutation: delete drops the first row whatever the index
DeleteRowsFirst(rows, i) == [j \in 1..(Len(rows) - 1) |-> rows[j + 1]]

\* np.delete(rows, i, axis = 0) for an index inside the array
DeleteRows(rows, i) ==
    LET k == IF i < 0 THEN i + Len(rows) ELSE i
    IN [j \in 1..(Len(rows) - 1) |-> IF j <= k THEN rows[j] ELSE rows[j + 1]]

\* i is no index of an array of n rows
OutOfRange(i, n) == i >= n \/ i < -n

\* Burst.delete(index), lines 81-85
Delete(i) ==
    /\ nops' = nops + 1
    /\ last' = [NoCall EXCEPT !.op = "delete", !.index = i]
    /\ IF OutOfRange(i, Len(_burst))
       THEN status' = "IndexError" /\ UNCHANGED _burst
       ELSE status' = "ok" /\ _burst' = DeleteRows(_burst, i)
    /\ UNCHANGED <<shape, upthr, srate, rate, wband, bpass, rms, sd, p, cand, idx,
                   obj, spectrum, ret, calls>>

\* self._burst[i] = pair for an index inside the array
SetRow(rows, i, pair) ==
    LET k == IF i < 0 THEN i + Len(rows) ELSE i
    IN [rows EXCEPT ![k + 1] = pair]

\* Burst.__setitem__(index, pair), lines 216-220
SetItem(i, pair) ==
    /\ nops' = nops + 1
    /\ last' = [NoCall EXCEPT !.op = "setitem", !.index = i, !.pair = pair]
    /\ IF OutOfRange(i, Len(_burst))
       THEN status' = "IndexError" /\ UNCHANGED _burst
       ELSE status' = "ok" /\ _burst' = SetRow(_burst, i, pair)
    /\ UNCHANGED <<shape, upthr, srate, rate, wband, bpass, rms, sd, p, cand, idx,
                   obj, spectrum, ret, calls>>

\* mutation: an index outside the array reads the first row
GetRowOrFirst(rows, i) ==
    IF OutOfRange(i, Len(rows)) THEN rows[1]
    ELSE At(rows, IF i < 0 THEN i + Len(rows) ELSE i)

\* what self[index] evaluates to, lines 211-214: self._burst[index], or
\* np.full(2, np.nan) when the index raises IndexError
GetRow(rows, i) ==
    IF OutOfRange(i, Len(rows)) THEN <<NaN, NaN>>
    ELSE At(rows, IF i < 0 THEN i + Len(rows) ELSE i)

\* Burst.__getitem__(index), lines 207-214; the pair returned is kept in
\* last.pair
GetItem(i) ==
    /\ nops' = nops + 1
    /\ last' = [NoCall EXCEPT !.op = "getitem", !.index = i, !.pair = GetRow(_burst, i)]
    /\ status' = "ok"
    /\ UNCHANGED <<burstFields, spectrum, ret, calls>>

\* fourier_spectrum(data, sr, fmax) for data of n samples, lines 41-59 of
\* lfp.py; with sr = NoRate, LFP.fourier_spectrum(data, fmax) of lfpmanager.py,
\* lines 220-243. hz holds the numerators of the frequencies over hzden
FourierSpectrum(n, sr, fmax) ==
    /\ last' = [NoCall EXCEPT !.op = "fourier_spectrum"]
    /\ IF FourierRaises(n)
       THEN /\ status' = "raised"
            /\ spectrum' = [size |-> n, raised |-> TRUE, nfreq |-> 0,
                            srate |-> sr, rate |-> UsedRate(sr), fmax |-> fmax,
                            hz |-> <<>>, hzden |-> 0, amp |-> <<>>]
       ELSE /\ status' = "ok"
            /\ spectrum' = [size |-> n, raised |-> FALSE,
                            nfreq |-> FourierBins(n, UsedRate(sr), fmax),
                            srate |-> sr, rate |-> UsedRate(sr), fmax |-> fmax,
                            hz |-> Take(Linspace(n, UsedRate(sr)),
                                        FourierBins(n, UsedRate(sr), fmax)),
                            hzden |-> 2 * (n \div 2),
                            amp |-> Take(Amplitudes(n),
                                         FourierBins(n, UsedRate(sr), fmax))]
    /\ UNCHANGED <<burstFields, nops, ret, calls>>

\* nothing has been called since the import
Fresh == obj = "module" /\ nops = 0 /\ spectrum = NoSpectrum

\* the tracked object is a burstcounter.Burst
IsBurst == obj \in {"module", "empty", "built"}

\* a session builds one Burst and calls delete / __setitem__ on it at most
\* MaxOps times, or builds one lfp.Burst, or calls fourier_spectrum
Next ==
    \/ Fresh /\ \E u \in Upthrs, sr \in Srates : NewEmptyBurst(u, sr)
    \/ Fresh /\ \E in \in Inputs, u \in Upthrs, sr \in Srates : NewBurst(in, u, sr)
    \/ Fresh /\ \E u \in Upthrs, sr \in Srates : NewBurstZeroLength(u, sr)
    \/ Fresh /\ \E in \in Inputs, sr \in Srates : NewLfpBurst(in, sr)
    \/ Fresh /\ \E sr \in Srates : NewLfpEmptyBurst(sr)
    \/ IsBurst /\ nops < MaxOps /\ \E i \in Indices(Len(_burst)) : Delete(i)
    \/ IsBurst /\ nops < MaxOps /\
          \E i \in Indices(Len(_burst)), pair \in Pairs : SetItem(i, pair)
    \/ IsBurst /\ nops < MaxOps /\ \E i \in GetIndices(Len(_burst)) : GetItem(i)
    \/ obj = "module" /\ nops = 0 /\
          \E n \in 0..MaxN, sr \in FourierRates, fmax \in FmaxArgs :
              FourierSpectrum(n, sr, fmax)

Spec == Init /\ [][Next]_vars

----------------------------------------------------------------------------
(* Calls of the module-level object: burst(channel, upthr, srate) *)

\* the envelopes of the channels burst is called with: a flat one, one with two
\* bumps and one with a bump between two low ones
CallShapes ==
    {[kind |-> "bumps", base |-> 0, slots |-> {}, width |-> 20],
     [kind |-> "bumps", base |-> 0, slots |-> {250, 1100}, width |-> 20],
     [kind |-> "shoulder", base |-> 0, slots |-> {250}, width |-> 20]}

CallInputs == {in \in Inputs : in.shape \in CallShapes}

\* mutation: __call__ runs self.__init__(channel, upthr, srate) and returns self
SelfAfterInit(self, made) == made

\* an attribute of self after __call__, lines 194-199: the method builds and
\* returns Burst(channel, upthr, srate) and assigns nothing to self
SelfAfterCall(self, made) == self

\* burst(channel, u, sr), lines 194-199, for a channel whose band-passed,
\* decimated signal has the envelope in.env: a new Burst is made as in NewBurst
\* and returned; the module-level object stays the tracked one
Call(in, u, sr) ==
    /\ \E pk \in {FindPeaks(in.env, u, in.sd)} :
          /\ calls' = Append(calls,
                             [channel |-> in.shape, upthr |-> u, srate |-> sr,
                              rows |-> BurstRows(pk, in.env, DecimatedRate(sr), in.sd)])
          /\ _burst' = SelfAfterCall(_burst, BurstRows(pk, in.env, DecimatedRate(sr), in.sd))
    /\ upthr' = SelfAfterCall(upthr, u)
    /\ srate' = SelfAfterCall(srate, DecimatedRate(sr))
    /\ rate' = SelfAfterCall(rate, 0)
    /\ rms' = SelfAfterCall(rms, in.env)
    /\ status' = "ok"
    /\ last' = [NoCall EXCEPT !.op = "call", !.srate = sr]
    /\ UNCHANGED <<shape, wband, bpass, sd, p, cand, idx, obj, nops, spectrum, ret>>

\* a session calls the module-level burst object up to MaxCalls times
CallNext ==
    /\ obj = "module" /\ Len(calls) < MaxCalls
    /\ \E in \in CallInputs, u \in Upthrs : Call(in, u, DefaultSrate)

CallSpec == Init /\ [][CallNext]_vars

----------------------------------------------------------------------------
(* rms (lfp.py; LFP.rms in lfpmanager.py is the same code) *)

\* the sample values of the signals
SigVals == {-2, 0, 1}

\* the signals handed to the signal-processing functions
Signals == UNION {[1..n -> SigVals] : n \in 0..MaxSigLen}

\* the segment arguments of rms, each written as twice its value so that 2.5
\* is the odd number 5
SegmentArgs == (-2)..(2 * MaxSeg)

\* the argument is a whole number
IsWhole(h) == h % 2 = 0

\* a2 = np.power(data,2)
Squares(data) == [k \in 1..Len(data) |-> data[k] * data[k]]

\* np.ones(segment), the numerators of kernel = np.ones(segment)/float(segment)
Ones(segment) == [k \in 1..segment |-> 1]

RECURSIVE ConvolveAt(_, _, _, _)
\* the terms a[j]*v[k-j] of the convolution sum from j on (1-based j and k)
ConvolveAt(a, v, k, j) ==
    IF j > Len(a) THEN 0
    ELSE (IF (k - j + 1) \in 1..Len(v) THEN a[j] * v[k - j + 1] ELSE 0)
         + ConvolveAt(a, v, k, j + 1)

\* mutation: np.convolve(a, v, mode = 'same')
ConvolveSame(a, v) ==
    [k \in 1..Max2(Len(a), Len(v)) |->
        ConvolveAt(a, v, k + (Min2(Len(a), Len(v)) - 1) \div 2, 1)]

\* np.convolve(a, v) of two non-empty arrays (mode 'full')
ConvolveFull(a, v) ==
    [k \in 1..(Len(a) + Len(v) - 1) |-> ConvolveAt(a, v, k, 1)]

\* mutation: a segment of 0 is let through
RmsErrorNoZero(n, h) ==
    IF ~IsWhole(h) THEN "TypeError"
    ELSE IF h < 0 \/ n = 0 THEN "ValueError"
    ELSE "none"

\* the exception rms(data, segment) ends with, for data of n samples: np.ones
\* rejects a float ("TypeError") and a negative size, np.convolve rejects an
\* empty kernel and empty data ("ValueError"); "none" when it returns
RmsError(n, h) ==
    IF ~IsWhole(h) THEN "TypeError"
    ELSE IF h <= 0 \/ n = 0 THEN "ValueError"
    ELSE "none"

\* mysegment = 0.005*self.srate; int(mysegment)
BurstSegment(s) == (5 * s) \div 1000

\* recording rates for which int(0.005*int(srate/60)) is 0
LowSrates == {600, 6000, 11999}

\* rms(data, segment): the result np.sqrt( np.convolve(a2, kernel) ) is kept as
\* num and den, its k-th value being sqrt(num[k]/den)
Rms(data, h) ==
    /\ ret' = [op |-> "rms", data |-> data, segment2 |-> h,
               raised |-> RmsError(Len(data), h),
               num |-> IF RmsError(Len(data), h) = "none"
                       THEN ConvolveFull(Squares(data), Ones(h \div 2))
                       ELSE <<>>,
               den |-> IF RmsError(Len(data), h) = "none" THEN h \div 2 ELSE 0]
    /\ UNCHANGED <<burstFields, status, last, nops, spectrum, calls>>

\* Burst(channel, u, sr) for a recording rate so low that the segment handed to
\* lfp.rms (burstcounter.py line 68) is 0: rms raises, no object is made
NewBurstNoEnvelope(u, sr) ==
    /\ BurstSegment(DecimatedRate(sr)) = 0
    /\ ret' = [op |-> "Burst", data |-> <<1>>,
               segment2 |-> 2 * BurstSegment(DecimatedRate(sr)),
               raised |-> RmsError(1, 2 * BurstSegment(DecimatedRate(sr))),
               num |-> <<>>, den |-> 0]
    /\ status' = RmsError(1, 2 * BurstSegment(DecimatedRate(sr)))
    /\ last' = [NoCall EXCEPT !.op = "Burst"]
    /\ UNCHANGED <<burstFields, nops, spectrum, calls>>

----------------------------------------------------------------------------
(* The filters of the LFP facade (lfpmanager.py) *)

\* the srate arguments of the facade methods
RateArgs == {NoRate, 500}

\* the cutoff and band frequencies (Hz) handed to the filters
CutoffArgs == {-1, 0, 90, 250, 15000, 20000}

\* the sizes of the signals handed to the filters
DataSizes == {MaxSigLen, 16, 28}

\* cutoff/Nyquist as the fraction <<numerator, denominator>>, Nyquist = rate/2
OverNyquist(hz, r) == <<2 * hz, r>>

\* the fraction is inside (0, 1)
InUnit(w) == 0 < w[1] /\ w[1] < w[2]

\* the fraction a is below the fraction b (positive denominators)
FracLt(a, b) == a[1] * b[2] < b[1] * a[2]

\* how signal.butter(N = 4, Wn = wn) can end: critical frequencies outside
\* (0, 1) raise ValueError; a band whose edges are not ascending raises
\* ValueError in the SciPy releases that check it and yields coefficients in
\* the others
ButterOutcomes(wn) ==
    IF \E k \in 1..Len(wn) : ~InUnit(wn[k]) THEN {"ValueError"}
    ELSE IF Len(wn) = 2 /\ ~FracLt(wn[1], wn[2]) THEN {"ValueError", "none"}
    ELSE {"none"}

\* signal.filtfilt(b, a, data) raises ValueError unless data is longer than
\* padlen = 3*max(len(a), len(b)), taps being the number of coefficients
FiltFiltError(n, taps) == IF n <= 3 * taps THEN "ValueError" ELSE "none"

\* what a filter call leaves in ret: its arguments, the rate it worked with
\* (NoRate: the function takes none), the critical frequencies it designed the
\* filter with, and how it ended
Filtered(op, n, hz, sr, wn, taps, designed) ==
    [op |-> op, size |-> n, hz |-> hz, srate |-> sr, wn |-> wn,
     raised |-> IF designed = "none" THEN FiltFiltError(n, taps) ELSE designed]

\* LFP.low_pass(data, cutoff, srate) for data of n samples, lines 85-97
LowPass(n, cutoff, sr) ==
    /\ \E designed \in ButterOutcomes(<<OverNyquist(cutoff, UsedRate(sr))>>) :
          ret' = Filtered("low_pass", n, <<cutoff>>, sr,
                          <<OverNyquist(cutoff, UsedRate(sr))>>, 5, designed)
    /\ UNCHANGED <<burstFields, status, last, nops, spectrum, calls>>

\* LFP.band_pass(data, low, high, srate) for data of n samples, lines 128-140
BandPass(n, low, high, sr) ==
    /\ \E designed \in ButterOutcomes(<<OverNyquist(low, UsedRate(sr)),
                                       OverNyquist(high, UsedRate(sr))>>) :
          ret' = Filtered("band_pass", n, <<low, high>>, sr,
                          <<OverNyquist(low, UsedRate(sr)),
                            OverNyquist(high, UsedRate(sr))>>, 9, designed)
    /\ UNCHANGED <<burstFields, status, last, nops, spectrum, calls>>

\* LFP.notch(data, band, srate) for data of n samples, lines 167-178;
\* signal.iirnotch(w0, Q) raises ValueError unless 0 < w0 < 1
Notch(n, band, sr) ==
    /\ \E designed \in ButterOutcomes(<<OverNyquist(band, UsedRate(sr))>>) :
          ret' = Filtered("notch", n, <<band>>, sr,
                          <<OverNyquist(band, UsedRate(sr))>>, 3, designed)
    /\ UNCHANGED <<burstFields, status, last, nops, spectrum, calls>>

\* low_pass(data, cutoff) of lfp.py, lines 80-83: cutoff goes to signal.butter
\* as it is
LfpLowPass(n, cutoff) ==
    /\ \E designed \in ButterOutcomes(<<<<cutoff, 1>>>>) :
          ret' = Filtered("lfp.low_pass", n, <<cutoff>>, NoRate, <<<<cutoff, 1>>>>,
                          5, designed)
    /\ UNCHANGED <<burstFields, status, last, nops, spectrum, calls>>

\* band_pass(data, low, high) of lfp.py, lines 109-112: low and high go to
\* signal.butter as they are
LfpBandPass(n, low, high) ==
    /\ \E designed \in ButterOutcomes(<<<<low, 1>>, <<high, 1>>>>) :
          ret' = Filtered("lfp.band_pass", n, <<low, high>>, NoRate,
                          <<<<low, 1>>, <<high, 1>>>>, 9, designed)
    /\ UNCHANGED <<burstFields, status, last, nops, spectrum, calls>>

\* the factors handed to decimate, each written as twice its value: -1, 0, 1,
\* 1.5, 2, 3
FactorArgs == {-2, 0, 2, 3, 4, 6}

\* mutation: a factor of 1 is let through
DecimateErrorNoOne(q2) ==
    IF ~IsWhole(q2) THEN "TypeError"
    ELSE IF q2 = 0 THEN "ZeroDivisionError"
    ELSE IF q2 < 0 THEN "ValueError"
    ELSE "none"

\* the exception signal.decimate(data, q, ftype = 'fir') ends with: q must be
\* an integer ("TypeError"); the cutoff 1./q of its FIR filter divides by zero
\* for q = 0 and is rejected by signal.firwin unless 0 < 1/q < 1 ("ValueError")
DecimateError(q2) ==
    IF ~IsWhole(q2) THEN "TypeError"
    ELSE IF q2 = 0 THEN "ZeroDivisionError"
    ELSE IF q2 < 0 \/ q2 = 2 THEN "ValueError"
    ELSE "none"

\* LFP.decimate(data, q) for data of n >= 1 samples, line 198: every q-th
\* sample of the filtered signal
Decimate(n, q2) ==
    /\ ret' = [op |-> "decimate", size |-> n, factor2 |-> q2,
               raised |-> DecimateError(q2),
               outsize |-> IF DecimateError(q2) = "none"
                           THEN (n + (q2 \div 2) - 1) \div (q2 \div 2) ELSE 0]
    /\ UNCHANGED <<burstFields, status, last, nops, spectrum, calls>>

\* the segments (in samples) handed to welch
WelchSegments == {2, 4}

\* the exception LFP.welch ends with: signal.welch rejects a window longer
\* than the signal ("ValueError") and cannot compute the frequencies for
\* fs = None ("TypeError")
WelchError(n, segment, fs) ==
    IF segment > n THEN "ValueError"
    ELSE IF fs = NoRate THEN "TypeError"
    ELSE "none"

\* LFP.welch(data, segment, srate) for data of n samples, lines 266-273: srate
\* goes to signal.welch as fs, as it is
Welch(n, segment, sr) ==
    /\ ret' = [op |-> "welch", size |-> n, segment |-> segment, srate |-> sr,
               fs |-> sr, raised |-> WelchError(n, segment, sr)]
    /\ UNCHANGED <<burstFields, status, last, nops, spectrum, calls>>

----------------------------------------------------------------------------
(* Power (lfp.py) *)

\* the powers of a spectrum
PsVals == {0, 1, 3}

\* the power spectra handed to get_delta, one power per frequency
Spectra == UNION {[1..n -> PsVals] : n \in 2..MaxBins}

\* the spectral resolutions (Hz): the frequencies are 0, dx, 2*dx, ...
DxArgs == {1, 2, 5}

\* how scipy.integrate.simps treats an even number of samples: the average of
\* the two trapezoid-completed sums ('avg', the default up to SciPy 1.10) or
\* the corrected last interval ('simpson', the default from SciPy 1.11)
SimpsRules == {"avg", "simpson"}

\* ps[np.logical_and(freq >= lo, freq <= hi)] for freq[k] = k*dx
InBand(ps, dx, lo, hi) ==
    LET S == {k \in 1..Len(ps) : lo <= (k - 1) * dx /\ (k - 1) * dx <= hi}
    IN IF S = {} THEN <<>> ELSE SubSeq(ps, MinOf(S), MaxOf(S))

RECURSIVE Panels(_, _, _)
\* the sum of y[i] + 4*y[i+1] + y[i+2] over the panels i = first, first + 2, ...
\* that end at stop or before
Panels(y, first, stop) ==
    IF first + 2 > stop THEN 0
    ELSE y[first] + 4 * y[first + 1] + y[first + 2] + Panels(y, first + 2, stop)

\* simps(y, dx = dx) raises IndexError: no sample to integrate (y[-1] is read)
SimpsRaises(y) == Len(y) = 0

\* 12 * simps(y, dx = 1) for one sample or more: Simpson's rule over an odd
\* number of samples (0 for a single one), the trapezoid for two samples, and
\* the rule named for an even number from four on
Simps12(y, rule) ==
    LET N == Len(y)
    IN IF N % 2 = 1 THEN 4 * Panels(y, 1, N)
       ELSE IF N = 2 THEN 6 * (y[1] + y[2])
       ELSE IF rule = "avg"
            THEN 2 * Panels(y, 1, N - 1) + 3 * (y[N - 1] + y[N])
                 + 3 * (y[1] + y[2]) + 2 * Panels(y, 2, N)
            ELSE 4 * Panels(y, 1, N - 1) + 5 * y[N] + 8 * y[N - 1] - y[N - 2]

\* a/b in floating point, as the pair <<numerator, denominator>>: 0/0 is nan,
\* written <<0, 0>>, and a/0 is inf, written <<1, 0>>
Quotient(a, b) == IF b = 0 THEN <<IF a = 0 THEN 0 ELSE 1, 0>> ELSE <<a, b>>

\* Power.get_delta(freq, ps), lines 252-256, for freq[k] = k*dx; absolute and
\* total are 12 times rdelta and rband
GetDelta(ps, dx, rule) ==
    /\ ret' =
         LET delta == InBand(ps, dx, 1, 4)
             band == InBand(ps, dx, 0, 100)
         IN IF SimpsRaises(delta) \/ SimpsRaises(band)
            THEN [op |-> "get_delta", ps |-> ps, dx |-> dx, ndelta |-> Len(delta),
                  raised |-> "IndexError", absolute |-> 0, total |-> 0,
                  relative |-> <<0, 1>>]
            ELSE [op |-> "get_delta", ps |-> ps, dx |-> dx, ndelta |-> Len(delta),
                  raised |-> "none",
                  absolute |-> dx * Simps12(delta, rule),
                  total |-> dx * Simps12(band, rule),
                  relative |-> Quotient(dx * Simps12(delta, rule),
                                        dx * Simps12(band, rule))]
    /\ UNCHANGED <<burstFields, status, last, nops, spectrum, calls>>

\* the methods class Power defines, lines 195-293
PowerMethods == {"__init__", "__call__", "get_delta", "resample", "welch"}

\* the methods Power.__init__ calls on self for a signal, in order: lines 210,
\* 213, 218 and 219
PowerPipeline == <<"low_pass", "resample", "welch", "get_delta">>

\* the calls of the pipeline that are made before one names a method the object
\* does not have (AttributeError)
StepsDone ==
    LET missing == {k \in 1..Len(PowerPipeline) : PowerPipeline[k] \notin PowerMethods}
    IN IF missing = {} THEN PowerPipeline
       ELSE SubSeq(PowerPipeline, 1, MinOf(missing) - 1)

\* the sizes of the signals Power is built with
PowerSizes == {1, 30, 300000}

\* Power(data, sr) for a signal of n >= 1 samples, lines 206-227: the attributes
\* are assigned after the pipeline, if it gets through
NewPower(n, sr) ==
    /\ ret' = [op |-> "Power", size |-> n, srate |-> sr, steps |-> StepsDone,
               raised |-> IF StepsDone = PowerPipeline THEN "none"
                          ELSE "AttributeError",
               attrs |-> IF StepsDone = PowerPipeline THEN {"freq", "ps", "delta"}
                         ELSE {},
               keyed |-> StepsDone = PowerPipeline, relative |-> <<0, 1>>]
    /\ UNCHANGED <<burstFields, status, last, nops, spectrum, calls>>

\* Power(None, sr), lines 220-235: freq = np.arange(0,100,.1), ps the zeros,
\* delta = 0.0 (a number, not the dictionary get_delta returns); the band
\* integrals of lines 230-235 are over zeros and are dropped
NewEmptyPower(sr) ==
    /\ ret' = [op |-> "Power", size |-> 0, srate |-> sr, steps |-> <<>>,
               raised |-> "none", attrs |-> {"freq", "ps", "delta"},
               keyed |-> FALSE, relative |-> <<0, 1>>]
    /\ UNCHANGED <<burstFields, status, last, nops, spectrum, calls>>

----------------------------------------------------------------------------
(* ColumnsDelete (transformers.py) *)

\* the column names of the data frames
ColumnNames == {"a", "b", "c"}

\* self.columns: the names to delete; {} stands for None and for the empty list
ColumnArgs == SUBSET {"a", "b"}

\* df.drop(self.columns, axis=1, inplace=True) raises KeyError: a name is not
\* a column of df
DropRaises(df, columns) == ~(columns \subseteq df)

\* ColumnsDelete(columns).transform(df), lines 330-333, for a frame with the
\* columns df: caller is the frame the caller passed, after the call; returned
\* is the frame returned, shared when it is the very object the caller passed
Transform(df, columns) ==
    /\ ret' = IF columns # {} /\ DropRaises(df, columns)
              THEN [op |-> "transform", df |-> df, columns |-> columns,
                    raised |-> "KeyError", caller |-> df, returned |-> {},
                    shared |-> FALSE]
              ELSE [op |-> "transform", df |-> df, columns |-> columns,
                    raised |-> "none", caller |-> df \ columns,
                    returned |-> df \ columns, shared |-> TRUE]
    /\ UNCHANGED <<burstFields, status, last, nops, spectrum, calls>>

----------------------------------------------------------------------------
(* Sessions of calls to the signal-processing functions *)

\* recording rates that are and that are not multiples of the decimation factor
AnySrates == {12000, 20000, 30030}

\* nothing has been called since the import
Idle == Fresh /\ ret = NoRet /\ last = NoCall

\* a session makes one call
LfpNext ==
    \/ Idle /\ \E data \in Signals, h \in SegmentArgs : Rms(data, h)
    \/ Idle /\ \E u \in Upthrs, sr \in LowSrates : NewBurstNoEnvelope(u, sr)
    \/ Idle /\ \E n \in DataSizes, c \in CutoffArgs, sr \in RateArgs : LowPass(n, c, sr)
    \/ Idle /\ \E n \in DataSizes, lo \in CutoffArgs, hi \in CutoffArgs, sr \in RateArgs :
                 BandPass(n, lo, hi, sr)
    \/ Idle /\ \E n \in DataSizes, c \in CutoffArgs, sr \in RateArgs : Notch(n, c, sr)
    \/ Idle /\ \E n \in DataSizes, c \in CutoffArgs : LfpLowPass(n, c)
    \/ Idle /\ \E n \in DataSizes, lo \in CutoffArgs, hi \in CutoffArgs :
                 LfpBandPass(n, lo, hi)
    \/ Idle /\ \E n \in DataSizes, q2 \in FactorArgs : Decimate(n, q2)
    \/ Idle /\ \E n \in DataSizes, seg \in WelchSegments, sr \in RateArgs :
                 Welch(n, seg, sr)
    \/ Idle /\ \E ps \in Spectra, dx \in DxArgs, rule \in SimpsRules :
                 GetDelta(ps, dx, rule)
    \/ Idle /\ \E n \in PowerSizes, sr \in Srates : NewPower(n, sr)
    \/ Idle /\ \E sr \in Srates : NewEmptyPower(sr)
    \/ Idle /\ \E df \in SUBSET ColumnNames, columns \in ColumnArgs :
                 Transform(df, columns)
    \/ Idle /\ \E in \in ListedInputs, sr \in AnySrates : NewBurst(in, DefaultUpthr, sr)
    \/ Idle /\ \E n \in 0..MaxN, sr \in FourierRates, fmax \in FmaxArgs :
                 FourierSpectrum(n, sr, fmax)

LfpSpec == Init /\ [][LfpNext]_vars

----------------------------------------------------------------------------
(* Properties *)

\* the collection is the one Burst.__long_burst returned: a Burst built from a
\* channel, before any delete or __setitem__
Detected == obj = "built" /\ nops = 0

\* the list is the one get_burst computed for an lfp.Burst
LfpDetected == obj = "lfp.Burst"

\* burst detection has run
Found == Detected \/ LfpDetected

\* the intervals burst detection produced
Intervals == IF LfpDetected THEN idx ELSE _burst

\* v is a sample index of the envelope
InEnvelope(v) == ~IsNaN(v) /\ 0 <= v /\ v < Len(rms)

\* C1: every interval (start, end) burst detection returns has start < end and
\* both bounds inside [0, len(envelope))
C1_IntervalsInsideEnvelope ==
    Found =>
        \A k \in 1..Len(Intervals) :
            /\ Lt(Intervals[k][1], Intervals[k][2])
            /\ InEnvelope(Intervals[k][1])
            /\ InEnvelope(Intervals[k][2])

\* C2: when peak detection finds no peak (also for a flat envelope), burst
\* detection returns an empty list and raises nothing
C2_NoPeakGivesEmptyList ==
    (Found /\ p = <<>>) => (Len(Intervals) = 0 /\ status = "ok")

\* C3: a Burst made with no input signal holds empty or zero-filled
\* placeholders only and has len() == 0
C3_EmptyInstanceHasNoBurst ==
    /\ (obj \in {"module", "empty"} /\ nops = 0) =>
           /\ Len(_burst) = 0
           /\ wband = "[]" /\ bpass = "[]" /\ rms = <<>>
           /\ p = <<>> /\ cand = <<>>
    /\ obj = "lfp.empty" => Len(idx) = 0

\* the positions k (1-based) of p whose gap to the next peak is strictly greater
\* than the gap threshold in samples: 0.75 s in Burst.__long_burst, 0.5 s in
\* get_burst
LargeGaps ==
    {k \in 1..(Len(p) - 1) : IF LfpDetected THEN 2 * (p[k + 1] - p[k]) > srate
                                            ELSE 4 * (p[k + 1] - p[k]) > 3 * srate}

\* C4: for a non-empty ascending peak list, grouping yields 1 + (number of large
\* gaps) bursts; the start candidates are the first peak and every peak right
\* after a large gap, the end candidates every peak right before a large gap
\* and the last peak
C4_GroupingByLargeGaps ==
    (Found /\ p # <<>>) =>
        /\ Len(Intervals) = 1 + Cardinality(LargeGaps)
        /\ Len(cand) = 1 + Cardinality(LargeGaps)
        /\ {cand[k][1] : k \in 1..Len(cand)} = {p[1]} \cup {p[k + 1] : k \in LargeGaps}
        /\ {cand[k][2] : k \in 1..Len(cand)} = {p[k] : k \in LargeGaps} \cup {p[Len(p)]}
        /\ \A k \in 1..(Len(cand) - 1) : cand[k][1] < cand[k + 1][1]

\* C4 witness: several peaks, some gaps large and some not
C4_Witness ==
    /\ Detected
    /\ Len(p) >= 4
    /\ Cardinality(LargeGaps) >= 2
    /\ Cardinality(LargeGaps) < Len(p) - 1

\* the rows are in chronological order and do not overlap
Chronological(rows) ==
    \A k \in 1..(Len(rows) - 1) :
        /\ Lt(rows[k][1], rows[k + 1][1])
        /\ Lt(rows[k][2], rows[k + 1][1])

\* C5: burst detection returns one refined pair per detected burst (none when no
\* burst is detected), in chronological order: starts strictly increasing and
\* every end before the next start
C5_OnePairPerBurstInOrder ==
    Detected => (Len(_burst) = Len(cand) /\ Chronological(_burst))

\* the envelope of C6: baseline 1, two bumps of peak height PeakHeight whose
\* peaks are 2 s apart at 500 Hz, default upper threshold
TwoBumps ==
    /\ Detected
    /\ shape.kind = "bumps" /\ shape.base = 1
    /\ Cardinality(shape.slots) = 2
    /\ srate = 500 /\ upthr = DefaultUpthr
    /\ MaxOf(shape.slots) - MinOf(shape.slots) = 2 * srate

\* exactly two intervals, each around its own bump's peak, none reaching the
\* other bump's peak
TwoBurstsFound ==
    LET x1 == MinOf(shape.slots)
        x2 == MaxOf(shape.slots)
    IN /\ Len(_burst) = 2
       /\ \A k \in 1..2 : ~IsNaN(_burst[k][1]) /\ ~IsNaN(_burst[k][2])
       /\ _burst[1][1] <= x1 /\ x1 <= _burst[1][2] /\ _burst[1][2] < x2
       /\ x1 < _burst[2][1] /\ _burst[2][1] <= x2 /\ x2 <= _burst[2][2]

\* C6 as stated: for a baseline of 1.0 with two bumps of peak height 20 whose
\* peaks are 2 s apart at 500 Hz, detection with the default thresholds returns
\* exactly 2 intervals, each containing its own peak, none spanning the gap
C6_TwoBumpsTwoBursts == TwoBumps => TwoBurstsFound

\* C6 amended: the same, provided the peak height reaches the high threshold
\* upthr * std(envelope), so that both bumps are detected as peaks
C6_TwoDetectedBumpsTwoBursts ==
    (TwoBumps /\ GeStd(PeakHeight, upthr, Len(rms), sd)) => TwoBurstsFound

\* C6 witness: two narrow bumps, both detected
C6_Witness ==
    TwoBumps /\ GeStd(PeakHeight, upthr, Len(rms), sd) /\ Len(p) = 2 /\ Len(_burst) = 2

\* the sample at Python index i is above lowthr = 2*std(envelope)
AboveLow(i) == GtStd(At(rms, i), 2, Len(rms), sd)

\* C7: every start candidate x is moved to the earliest sample above lowthr
\* among the BackWindow samples before x (as many as there are when x is nearer
\* to index 0), and stays x when there is none
C7_StartIsEarliestAboveLow ==
    Detected =>
        \A k \in 1..Len(cand) :
            LET x == cand[k][1]
                win == {i \in Max2(0, x - BackWindow(srate))..(x - 1) : AboveLow(i)}
            IN _burst[k][1] = IF win = {} THEN x ELSE MinOf(win)

\* C8: every end candidate x is moved to the latest sample above lowthr among
\* the FwdWindow samples after x (as many as there are when x is nearer to the
\* last index), and stays x when there is none
C8_EndIsLatestAboveLow ==
    Detected =>
        \A k \in 1..Len(cand) :
            LET x == cand[k][2]
                win == {i \in (x + 1)..Min2(x + FwdWindow(srate), Len(rms) - 1)
                          : AboveLow(i)}
            IN _burst[k][2] = IF win = {} THEN x ELSE MaxOf(win)

\* C9: the burst detector and the spectral estimator, called with a signal of
\* zero samples, return an empty result and do not raise
C9_ZeroLengthIsSafe ==
    /\ (last.op = "fourier_spectrum" /\ spectrum.size = 0) =>
           (~spectrum.raised /\ spectrum.nfreq = 0 /\ status = "ok")
    /\ last.op = "Burst0" => status = "ok"

\* rows with the row at position k (1-based) removed
Without(rows, k) == [j \in 1..(Len(rows) - 1) |-> IF j < k THEN rows[j] ELSE rows[j + 1]]

\* the position (1-based) a Python index i names in an array of n rows
Position(i, n) == IF i < 0 THEN i + n + 1 ELSE i + 1

\* the step is a delete(index) that removed exactly the row at index
DeletedOne ==
    /\ last'.op = "delete"
    /\ Position(last'.index, Len(_burst)) \in 1..Len(_burst)
    /\ _burst' = Without(_burst, Position(last'.index, Len(_burst)))

\* the step is a __setitem__(index, pair) that overwrote exactly the row at index
OverwroteOne ==
    /\ last'.op = "setitem"
    /\ Len(_burst') = Len(_burst)
    /\ Position(last'.index, Len(_burst)) \in 1..Len(_burst)
    /\ \A k \in 1..Len(_burst) :
          _burst'[k] = IF k = Position(last'.index, Len(_burst)) THEN last'.pair
                       ELSE _burst[k]

\* the rows are ordered by start time
OrderedByStart(rows) == \A k \in 1..(Len(rows) - 1) : Lt(rows[k][1], rows[k + 1][1])

RECURSIVE SquaresOver(_, _)
\* the sum of the squares of the samples of data at the positions in S
SquaresOver(data, S) ==
    IF S = {} THEN 0
    ELSE LET i == CHOOSE i \in S : TRUE
         IN data[i] * data[i] + SquaresOver(data, S \ {i})

\* rms was called with a positive whole segment
RmsCalled == ret.op = "rms" /\ IsWhole(ret.segment2) /\ ret.segment2 >= 2

\* the result has len(signal) + segment - 1 values, the k-th being the square
\* root of the mean of the squares over the segment-long window that ends at k
\* (samples outside the signal count as 0)
RmsIsWindowedMean ==
    LET seg == ret.segment2 \div 2
    IN /\ ret.raised = "none"
       /\ ret.den = seg
       /\ Len(ret.num) = Len(ret.data) + seg - 1
       /\ \A k \in 1..Len(ret.num) :
             ret.num[k] = SquaresOver(ret.data,
                                      {i \in (k - seg + 1)..k : i \in 1..Len(ret.data)})

Nyquist2 == IF ret.srate = NoRate THEN LfpSrate ELSE ret.srate

\* C13: low_pass raises unless 0 < cutoff < Nyquist, band_pass raises unless
\* 0 < low < high < Nyquist, at the call, and no filtered signal is returned
C13_BadFrequenciesRaise ==
    /\ (ret.op = "low_pass" /\ ~(0 < ret.hz[1] /\ 2 * ret.hz[1] < Nyquist2)) =>
           ret.raised # "none"
    /\ (ret.op = "band_pass" /\ ~(/\ 0 < ret.hz[1] /\ ret.hz[1] < ret.hz[2]
                                  /\ 2 * ret.hz[2] < Nyquist2)) =>
           ret.raised # "none"

C15_RateIsExactQuotient ==
    (last.op = "Burst" /\ obj = "built") => srate * DecimationQ = last.srate

\* a filter has been designed and applied
FilterCalled ==
    ret.op \in {"low_pass", "band_pass", "notch", "lfp.low_pass", "lfp.band_pass"}

\* C16: whichever filter function a caller hands a cutoff in Hz, the critical
\* frequency the filter is designed with is that cutoff divided by the Nyquist
\* frequency (half the sampling rate of the signal) exactly once
C16_CutoffOverNyquistOnce ==
    FilterCalled =>
        \A k \in 1..Len(ret.wn) :
            ret.wn[k][1] * Nyquist2 = 2 * ret.hz[k] * ret.wn[k][2]

\* fourier_spectrum has returned
SpectrumReturned == last.op = "fourier_spectrum" /\ ~spectrum.raised

\* C17: a method of the LFP facade that takes an optional srate works with the
\* rate bound at construction when srate is omitted and with the srate passed
\* otherwise
C17_OmittedRateIsBoundRate ==
    /\ ret.op \in {"low_pass", "band_pass", "notch"} =>
           \A k \in 1..Len(ret.wn) : ret.wn[k][2] = Nyquist2
    /\ ret.op = "welch" => (ret.fs = Nyquist2 /\ ret.raised # "TypeError")
    /\ SpectrumReturned =>
           spectrum.rate = IF spectrum.srate = NoRate THEN LfpSrate ELSE spectrum.srate

\* C18: the amplitude returned for bin 0 is |X[0]|/N, not doubled, and the one
\* returned for every other bin k is 2|X[k]|/N
C18_OnlyDcIsNotDoubled ==
    SpectrumReturned =>
        /\ Len(spectrum.amp) = Len(spectrum.hz)
        /\ \A k \in 1..Len(spectrum.amp) :
              spectrum.amp[k] = <<IF k = 1 THEN 1 ELSE 2, k - 1>>

\* C18 witness: a spectrum of several bins has been returned
C18_Witness == SpectrumReturned /\ Len(spectrum.amp) >= 3

\* C19: for N >= 1 samples and no fmax, fourier_spectrum returns floor(N/2)+1
\* frequencies, non-negative, strictly increasing, evenly spaced from 0 to the
\* Nyquist frequency inclusive, and as many amplitudes
C19_FrequencyGrid ==
    (last.op = "fourier_spectrum" /\ spectrum.size >= 1 /\ spectrum.fmax = NoFmax) =>
        /\ ~spectrum.raised
        /\ Len(spectrum.hz) = (spectrum.size \div 2) + 1
        /\ Len(spectrum.amp) = Len(spectrum.hz)
        /\ spectrum.hz[1] = 0
        /\ \A k \in 1..(Len(spectrum.hz) - 1) :
              /\ spectrum.hz[k] < spectrum.hz[k + 1]
              /\ spectrum.hz[k + 1] - spectrum.hz[k] = spectrum.hz[2] - spectrum.hz[1]
        /\ 2 * spectrum.hz[Len(spectrum.hz)] = spectrum.rate * spectrum.hzden

\* C20: with fmax given, fourier_spectrum returns exactly the grid frequencies
\* that are <= fmax (fmax itself when it is on the grid), with their amplitudes
C20_KeepsFrequenciesUpToFmax ==
    (SpectrumReturned /\ spectrum.fmax # NoFmax) =>
        /\ {spectrum.hz[k] : k \in 1..Len(spectrum.hz)} =
               {g \in {k * spectrum.rate : k \in 0..(spectrum.size \div 2)} :
                   g <= spectrum.fmax * spectrum.hzden}
        /\ Len(spectrum.amp) = Len(spectrum.hz)

\* C30: burst[index] returns the pair stored at index when the index is inside
\* the collection, and a pair of NaN for every index outside it; it never
\* raises and leaves the collection unchanged
C30_GetItemNeverRaises ==
    [][last'.op = "getitem" =>
         /\ status' = "ok"
         /\ _burst' = _burst
         /\ \A k \in 0..(Len(_burst) - 1) :
               last'.index \in {k, k - Len(_burst)} => last'.pair = At(_burst, k)
         /\ (last'.index >= Len(_burst) \/ last'.index < -Len(_burst)) =>
               last'.pair = <<NaN, NaN>>]_vars

\* C30 witness: an index past the end of several intervals has been read
C30_Witness ==
    /\ obj = "built" /\ last.op = "getitem" /\ Len(_burst) >= 2
    /\ last.index = Len(_burst) /\ last.pair = <<NaN, NaN>>

\* __long_burst has returned the rows of a Burst that found peaks
Refined == Detected /\ Len(cand) >= 1

CrossesUp(i) == i \in 1..(Len(rms) - 1) /\ AboveLow(i) /\ ~AboveLow(i - 1)

\* the envelope crosses 2*std downwards after i: i is above it, i + 1 is not
CrossesDown(i) == i \in 0..(Len(rms) - 2) /\ AboveLow(i) /\ ~AboveLow(i + 1)

\* the crossing points in the backward window of the start candidate x
StartCrossings(x) == {i \in (x - BackWindow(srate))..(x - 1) : CrossesUp(i)}

\* the crossing points in the forward window of the end candidate x
EndCrossings(x) == {i \in (x + 1)..(x + FwdWindow(srate)) : CrossesDown(i)}

\* C28: the refined start of a burst is, among the points of the backward
\* window where the envelope crosses 2*std, the one closest to the first peak
\* of the burst; the refined end is the crossing point of the forward window
\* closest to the last peak
C28_ClosestCrossing ==
    Refined =>
        \A k \in 1..Len(cand) :
            /\ StartCrossings(cand[k][1]) # {} =>
                   _burst[k][1] = MaxOf(StartCrossings(cand[k][1]))
            /\ EndCrossings(cand[k][2]) # {} =>
                   _burst[k][2] = MinOf(EndCrossings(cand[k][2]))

\* the module-level object burst is as the import made it
AsImported ==
    /\ obj = "module" /\ upthr = DefaultUpthr /\ srate = 0 /\ rate = DefaultSrate
    /\ rms = <<>> /\ Len(_burst) = 1 /\ wband = "[]" /\ bpass = "[]"

AllZero == \A k \in 1..Len(ret.ps) : (k - 1) * ret.dx <= 100 => ret.ps[k] = 0

\* C21: the relative delta power is the absolute delta power over the total
\* band power (0-100 Hz); when the total is exactly zero (an all-zero spectrum,
\* or the empty Power instance) the relative value is NaN and nothing is raised
C21_RelativeDeltaPower ==
    /\ (ret.op = "get_delta" /\ ret.raised = "none") =>
           ret.relative = Quotient(ret.absolute, ret.total)
    /\ (ret.op = "get_delta" /\ AllZero) =>
           (ret.raised = "none" /\ ret.relative = <<0, 0>>)
    /\ (ret.op = "Power" /\ ret.size = 0) =>
           (ret.raised = "none" /\ ret.keyed /\ ret.relative = <<0, 0>>)

\* C22: integrating a band that holds fewer than 3 frequency samples (0, 1 or 2)
\* gives 0.0 and does not raise
C22_ShortBandIsZero ==
    (ret.op = "get_delta" /\ ret.ndelta < 3) =>
        (ret.raised = "none" /\ ret.absolute = 0)

\* C23: Power built with a non-empty signal runs low-pass filtering, resampling,
\* the Welch estimate and the band-power integration, in this order, and ends
\* with freq, ps and delta set, raising nothing
C23_PowerPipelineCompletes ==
    (ret.op = "Power" /\ ret.size >= 1) =>
        /\ ret.steps = <<"low_pass", "resample", "welch", "get_delta">>
        /\ ret.raised = "none"
        /\ ret.attrs = {"freq", "ps", "delta"}

\* C27: transform(df) returns a new frame without the configured columns and
\* leaves the frame the caller passed with all its columns
C27_TransformLeavesCallerFrame ==
    (ret.op = "transform" /\ ret.raised = "none") =>
        /\ ret.returned = ret.df \ ret.columns
        /\ ret.caller = ret.df
        /\ ~ret.shared

====
